---- MODULE Spec2Model ----
(***************************************************************************)
(* Verification model of ftx66/arxiv_rss_bot.                              *)
(*                                                                         *)
(*   Spec      the Notion publisher (src/notion_publisher.py): the publish *)
(*             ledger, publish_from_latest_rss and backfill_from_latest_rss*)
(*             run one after the other over a fixed feed.                  *)
(*   SpecFetch run_pipeline (src/main.py): the fetch retry loop, filtering, *)
(*             feed writing, history and the failure handler, run after    *)
(*             run under a clock.                                          *)
(*   SpecText  the pure text functions of src/notion_publisher.py:         *)
(*             match_keywords, extract_authors_and_abstract,               *)
(*             extract_categories_from_description.                        *)
(*   SpecSchema schema reconciliation (get_database_properties, the two    *)
(*             ensure_* functions, find_title_property) and the property   *)
(*             payload built from the reconciled map.                      *)
(*   SpecRace  two calls of publish_from_latest_rss running at once over   *)
(*             one feed and one ledger file.                               *)
(*   SpecMain  the one-shot entry point main() (src/main.py).              *)
(***************************************************************************)
EXTENDS Integers, Sequences, FiniteSets, TLC

VARIABLES
    \* ---- publisher (notion_publisher.py) ----
    feed,             \* parse_rss_file(latest_rss): the records of the feed
    remote,           \* the remote database: title -> number of pages
    disk,             \* notion_publish_history.json: [state, guids]
    pc,               \* position of the running call
    mode,             \* "publish" | "backfill" | "none"
    limit,            \* publish_from_latest_rss(limit)
    idx,              \* loop position in `for paper in papers`
    published_guids,  \* the in-memory set
    loaded,           \* set(history["published_guids"]) as loaded by this call
    created,          \* counter `created`
    updated,          \* counter `updated`
    errors,           \* list `errors`
    page_by_title,    \* backfill's title index: title -> page id
    createCalls,      \* feed positions create_page was called for in this call
    okCreates,        \* feed positions whose create_page returned 200
    updateCalls,      \* <<feed position, page id>> update_page was called with
    okUpdates,        \* feed positions whose update_page returned 200
    savedArg,         \* history["published_guids"] handed to save_publish_history
    saveOk,           \* return value of save_publish_history
    result,           \* the dict the call returns
    runs,             \* number of calls started so far
    creates,          \* identity -> number of create_page calls that returned 200
    prev,             \* summary of the call that finished last
    \* ---- run_pipeline (main.py) ----
    ppc,              \* position in run_pipeline
    config,           \* the local `config`: [bound, history_enabled, email_on_error]
    retry_count,      \* counter `retry_count`
    outcomes,         \* what each fetch_latest_papers call did, in order
    papers,           \* the local `papers`
    sleeps,           \* the time.sleep calls made, in seconds, in order
    processed_papers, \* the local `processed_papers`
    feedFiles,        \* feed documents generate_rss wrote
    historyFiles,     \* history entries save_history_record wrote
    exc,              \* the exception being handled: where it was raised
    notified,         \* send_error_notification was called
    presult,          \* what run_pipeline returned, or that it raised
    historyWrite,     \* what became of this run's history entry
    clock,            \* the second datetime.now() is in
    feedNames,        \* the feed file names the runs wrote to, in order
    pruns,            \* number of runs started so far
    \* ---- text functions (notion_publisher.py) ----
    job,              \* which function the inputs are for: "match" | "extract"
    tpc,              \* "ready" before the call, "done" after it
    title,            \* paper.get("title", "")
    description,      \* paper.get("description", "")
    keywords,         \* the keywords argument: [none, list], none for Python None
    matched,          \* what match_keywords returned
    authors,          \* extract_authors_and_abstract(desc)[0]
    abstract_text,    \* extract_authors_and_abstract(desc)[1]
    categories,       \* extract_categories_from_description(desc)
    abstract_written, \* the content of the Abstract property of the payload
    \* ---- schema reconciliation and payloads (notion_publisher.py) ----
    spc,              \* position of the running entry point
    schema,           \* the remote database's properties: name -> type
    rss,              \* get_latest_rss_file / parse_first_item_fields: [exists, fields]
    entry,            \* "setup" | "publish" | "backfill" | "none"
    reconciler,       \* which ensure_* the entry point ran: "fixed" | "xml" | "none"
    properties_map,   \* the local `properties_map`
    title_prop,       \* the local `title_prop`
    patchCalls,       \* PATCH requests the running entry point has sent
    payload,          \* the properties of the page request sent: name -> type
    sruns,            \* number of entry points started so far
    prevReconciler,   \* the ensure_* the entry point before this one ran
    remoteFaults,     \* a remote call of the running entry point answered non-200
    \* ---- two concurrent publish calls (notion_publisher.py) ----
    raceFeed,         \* parse_rss_file(latest_rss), the same for both calls
    ledger,           \* notion_publish_history.json: [state, guids]
    call,             \* caller -> the locals of its call: [pc, idx,
                      \*   published_guids, created, okCreates]
    staleSave,        \* callers that loaded before another call saved and
                      \*   have not saved yet, or saved so
    fileFault,        \* a read or a write of the ledger file failed
    \* ---- main() (main.py) ----
    mpc,              \* position in main()
    mconfig,          \* the local `config`
    mfetches,         \* what each fetch_latest_papers call did, in order
    mpapers,          \* the local `papers`
    mprocessed,       \* the local `processed_papers`
    mfeedFiles,       \* feed documents generate_rss wrote
    mhistoryFiles,    \* history entries save_history_record wrote
    mexc,             \* where the exception being handled was raised
    mnotified,        \* send_notification: "none" | "sent" | "failed"
    exit_code         \* "running", "0" on return, "1" on sys.exit(1)

pubVars == <<feed, remote, disk, pc, mode, limit, idx, published_guids, loaded,
             created, updated, errors, page_by_title, createCalls, okCreates,
             updateCalls, okUpdates, savedArg, saveOk, result, runs, creates,
             prev>>

pipeVars == <<ppc, config, retry_count, outcomes, papers, sleeps,
              processed_papers, feedFiles, historyFiles, exc, notified, presult,
              historyWrite, clock, feedNames, pruns>>

textVars == <<job, tpc, title, description, keywords, matched, authors,
              abstract_text, categories, abstract_written>>

schemaVars == <<spc, schema, rss, entry, reconciler, properties_map, title_prop,
                patchCalls, payload, sruns, prevReconciler, remoteFaults>>

raceVars == <<raceFeed, ledger, call, staleSave, fileFault>>

mainVars == <<mpc, mconfig, mfetches, mpapers, mprocessed, mfeedFiles,
              mhistoryFiles, mexc, mnotified, exit_code>>

vars == <<pubVars, pipeVars, textVars, schemaVars, raceVars, mainVars>>

-----------------------------------------------------------------------------
(* Bounds of the model *)

MaxFeed == 2
MaxRuns == 2

\* fetch_latest_papers is called at most this often in a behaviour
MaxFetchCalls == 5

\* runs of run_pipeline, one after the other
MaxPipeRuns == 2

\* the seconds of the clock: 0..MaxClock - 1 are seconds, MaxClock is any
\* later time
MaxClock == 1

\* the longest keyword list, and the most lines of a description
MaxKeywords == 2
MaxLines == 3

\* entry points that reconcile the schema, one after the other
MaxSchemaRuns == 2

\* no behaviour creates more pages than this, plus the one Init may hold
MaxPages == MaxFeed * MaxRuns + 1

-----------------------------------------------------------------------------
(* Values *)

\* Python None: a key the record lacks (dict.get without default)
NoneVal == "None"

\* Python truthiness of a string-or-None value
Truthy(v) == v # NoneVal /\ v # ""

\* HTTP 200, the only status the publisher treats as success
HTTP_OK == 200

\* the statuses a remote call answers with in the model
Statuses == {200, 400}

\* publish_from_latest_rss(limit=30)
DefaultLimit == 30

\* the record shapes a feed is built from
FeedRecords ==
    { [guid |-> "X",     link |-> "lx",    title |-> "Foo"],
      [guid |-> "X",     link |-> "ly",    title |-> "Bar"],
      [guid |-> NoneVal, link |-> "Y",     title |-> "Foo"],
      [guid |-> "",      link |-> NoneVal, title |-> NoneVal] }

Feeds == UNION { [1..n -> FeedRecords] : n \in 0..MaxFeed }

\* guid = paper.get("guid") or paper.get("link")
Identity(paper) == IF Truthy(paper.guid) THEN paper.guid ELSE paper.link

\* paper.get("title", "Untitled") as publish and build_properties_for_paper write it
PageTitle(paper) == IF paper.title = NoneVal THEN "Untitled" ELSE paper.title

\* a backfill that looks up the title it writes, "Untitled" for a missing one
LookupTitleAsWritten(paper) == PageTitle(paper)

\* paper.get("title", "") as backfill looks it up
LookupTitle(paper) == IF paper.title = NoneVal THEN "" ELSE paper.title

Identities == { Identity(r) : r \in FeedRecords }
RealIdentities == { i \in Identities : Truthy(i) }

-----------------------------------------------------------------------------
(* The ledger file *)

NoFile == [state |-> "absent", guids |-> {}]

\* a call that starts from the empty ledger whatever the file holds
LoadPublishHistoryAnew(d, readOk) == {}

\* load_publish_history: the set the caller builds from what it returns. A
\* missing file, a failing read and a file json.load rejects all give the
\* empty ledger.
LoadPublishHistory(d, readOk) ==
    IF d.state = "ok" /\ readOk THEN d.guids ELSE {}

\* save_publish_history: the file afterwards and the value returned.
\*   "ok"         the file holds the new ledger, True
\*   "open_fail"  open(..., "w") raised: the file is untouched, False
\*   "write_fail" json.dump raised after open truncated the file: what is
\*                left is no JSON document, False
SaveOutcomes == {"ok", "open_fail", "write_fail"}

SavePublishHistory(d, guids, outcome) ==
    CASE outcome = "ok"         -> [state |-> "ok", guids |-> guids]
      [] outcome = "open_fail"  -> d
      [] outcome = "write_fail" -> [state |-> "corrupt", guids |-> {}]

-----------------------------------------------------------------------------
(* The remote database *)

\* the titles a page of the model can carry
Titles == { PageTitle(r) : r \in FeedRecords }

\* The database holds pages; the publisher reads of a page its title and its
\* id only, and never the order of pages with different titles. It is kept as
\* title -> number of pages with that title; the k-th page created with title
\* t has the id <<t, k>>.
EmptyDatabase == [t \in Titles |-> 0]

\* the pages in the order the listing returns them within one title
PagesOf(db) == { p \in Titles \X (1..MaxPages) : p[2] <= db[p[1]] }

\* What the requests of the listing that answered 200 can have delivered when
\* a later request of it fails: the pages come in the order and in the
\* portions the sink chooses, so any part of the database short of all of it
\* (nothing at all when the first request fails).
PartialListings(db) == { got \in SUBSET PagesOf(db) : got # PagesOf(db) \/ got = {} }

\* query_database_pages, lines 103-125: the requests follow the cursor until
\* has_more is false, which gives every page; a request that answers another
\* status than 200 breaks the loop, which gives the pages `got` before it.
QueryDatabasePages(db, got, status) ==
    IF status = HTTP_OK THEN PagesOf(db) ELSE got

\* {get_page_title(p): p for p in pages}: a later page with the same title
\* replaces an earlier one. The value is the page id.
PageByTitle(pages) ==
    [t \in { p[1] : p \in pages } |->
        CHOOSE p \in pages : p[1] = t /\ \A q \in pages : q[1] = t => q[2] <= p[2]]

\* the title of the page create_page adds for a paper
NewPage(paper) == PageTitle(paper)

-----------------------------------------------------------------------------
(* publish_from_latest_rss and backfill_from_latest_rss *)

PubInit ==
    /\ feed \in Feeds
    /\ remote \in { EmptyDatabase, [EmptyDatabase EXCEPT !["Foo"] = 1] }
    /\ disk = NoFile
    /\ pc = "idle"
    /\ mode = "none"
    /\ limit = DefaultLimit
    /\ idx = 1
    /\ published_guids = {}
    /\ loaded = {}
    /\ created = 0
    /\ updated = 0
    /\ errors = <<>>
    /\ page_by_title = << >>
    /\ createCalls = {}
    /\ okCreates = {}
    /\ updateCalls = {}
    /\ okUpdates = {}
    /\ savedArg = {}
    /\ saveOk = FALSE
    /\ result = [success |-> FALSE]
    /\ runs = 0
    /\ creates = [i \in Identities |-> 0]
    /\ prev = [mode |-> "none"]

\* the locals of a call
locals == <<idx, published_guids, loaded, created, updated, errors, page_by_title,
            createCalls, okCreates, updateCalls, okUpdates, savedArg, saveOk>>

\* the locals of a call are gone when it has returned
ResetCall ==
    /\ idx' = 1
    /\ published_guids' = {}
    /\ loaded' = {}
    /\ created' = 0
    /\ updated' = 0
    /\ errors' = <<>>
    /\ page_by_title' = << >>
    /\ createCalls' = {}
    /\ okCreates' = {}
    /\ updateCalls' = {}
    /\ okUpdates' = {}
    /\ savedArg' = {}
    /\ saveOk' = FALSE

\* the early returns of both calls: Notion disabled, no token or database id,
\* no feed file, no papers in it
Preconditions(enabled, creds, rssFile) ==
    enabled /\ creds /\ rssFile /\ Len(feed) > 0

\* publish_from_latest_rss, lines 334-356: configuration, the feed, the schema
PublishStart ==
    /\ UNCHANGED <<pipeVars, textVars, schemaVars, raceVars, mainVars>>
    /\ pc = "idle"
    /\ runs < MaxRuns
    /\ \E enabled \in BOOLEAN, creds \in BOOLEAN, rssFile \in BOOLEAN,
          lim \in {1, DefaultLimit} :
        /\ limit' = lim
        /\ IF Preconditions(enabled, creds, rssFile)
           THEN /\ pc' = "load"
                /\ result' = [success |-> FALSE]
           ELSE /\ pc' = "done"
                /\ result' = [success |-> FALSE, error |-> "precondition"]
    /\ mode' = "publish"
    /\ runs' = runs + 1
    /\ UNCHANGED <<feed, remote, disk, creates, prev>>
    /\ UNCHANGED locals

\* backfill_from_latest_rss, lines 435-451
BackfillStart ==
    /\ UNCHANGED <<pipeVars, textVars, schemaVars, raceVars, mainVars>>
    /\ pc = "idle"
    /\ runs < MaxRuns
    /\ \E enabled \in BOOLEAN, creds \in BOOLEAN, rssFile \in BOOLEAN :
        IF Preconditions(enabled, creds, rssFile)
        THEN /\ pc' = "list"
             /\ result' = [success |-> FALSE]
        ELSE /\ pc' = "done"
             /\ result' = [success |-> FALSE, error |-> "precondition"]
    /\ mode' = "backfill"
    /\ limit' = DefaultLimit
    /\ runs' = runs + 1
    /\ UNCHANGED <<feed, remote, disk, creates, prev>>
    /\ UNCHANGED locals

\* backfill, lines 452-453: the listing and the title index
BackfillList ==
    /\ UNCHANGED <<pipeVars, textVars, schemaVars, raceVars, mainVars>>
    /\ pc = "list"
    /\ \E status \in Statuses, got \in PartialListings(remote) :
        page_by_title' = PageByTitle(QueryDatabasePages(remote, got, status))
    /\ pc' = "load"
    /\ UNCHANGED <<feed, remote, disk, mode, limit, idx, published_guids, loaded,
                   created, updated, errors, createCalls, okCreates, updateCalls,
                   okUpdates, savedArg, saveOk, result, runs, creates, prev>>

\* lines 357-358 and 457-458: history = load_publish_history()
LoadHistory ==
    /\ UNCHANGED <<pipeVars, textVars, schemaVars, raceVars, mainVars>>
    /\ pc = "load"
    /\ \E readOk \in BOOLEAN :
        /\ published_guids' = LoadPublishHistory(disk, readOk)
        /\ loaded' = LoadPublishHistory(disk, readOk)
    /\ pc' = "loop"
    /\ UNCHANGED <<feed, remote, disk, mode, limit, idx, created, updated, errors,
                   page_by_title, createCalls, okCreates, updateCalls, okUpdates,
                   savedArg, saveOk, result, runs, creates, prev>>

\* a publisher that looks the link up instead of the identity
AlreadyPublishedByLink(paper, guids) == paper.link \in guids

\* a publisher that looks the identity up in the ledger as loaded, not in the
\* set it keeps adding to
AlreadyPublishedAsLoaded(paper, guids) == Identity(paper) \in loaded

\* line 365: if guid in published_guids: continue
AlreadyPublished(paper, guids) == Identity(paper) \in guids

\* a publisher that marks a record delivered whatever create_page answered
MarkCreatedAlways(m, paper, guids, status) == guids \cup {Identity(paper)}

\* lines 425-427 and 471-475: what a create_page answer adds to the set.
\* publish adds the identity whatever it is; backfill only a truthy one.
MarkCreated(m, paper, guids, status) ==
    IF status = HTTP_OK /\ (m = "publish" \/ Truthy(Identity(paper)))
    THEN guids \cup {Identity(paper)}
    ELSE guids

\* the remote database after a create_page for the paper answered `status`
RemoteAfterCreate(db, paper, status) ==
    IF status = HTTP_OK THEN [db EXCEPT ![NewPage(paper)] = @ + 1] ELSE db

\* the body of publish's loop, lines 361-429, for one paper
PublishRecord ==
    /\ UNCHANGED <<pipeVars, textVars, schemaVars, raceVars, mainVars>>
    /\ pc = "loop"
    /\ mode = "publish"
    /\ idx <= Len(feed)
    /\ created < limit
    /\ LET paper == feed[idx] IN
        IF AlreadyPublished(paper, published_guids)
        THEN UNCHANGED <<remote, published_guids, created, errors, createCalls,
                         okCreates, creates>>
        ELSE \E status \in Statuses :
            /\ createCalls' = createCalls \cup {idx}
            /\ remote' = RemoteAfterCreate(remote, paper, status)
            /\ published_guids' = MarkCreated(mode, paper, published_guids, status)
            /\ IF status = HTTP_OK
               THEN /\ created' = created + 1
                    /\ okCreates' = okCreates \cup {idx}
                    /\ creates' = [creates EXCEPT ![Identity(paper)] = @ + 1]
                    /\ UNCHANGED errors
               ELSE /\ errors' = Append(errors, [idx |-> idx, status |-> status])
                    /\ UNCHANGED <<created, okCreates, creates>>
    /\ idx' = idx + 1
    /\ UNCHANGED <<feed, disk, pc, mode, limit, loaded, updated, page_by_title,
                   updateCalls, okUpdates, savedArg, saveOk, result, runs, prev>>

\* the body of backfill's loop, lines 459-477, for one paper
BackfillRecord ==
    /\ UNCHANGED <<pipeVars, textVars, schemaVars, raceVars, mainVars>>
    /\ pc = "loop"
    /\ mode = "backfill"
    /\ idx <= Len(feed)
    /\ LET paper == feed[idx]
           key == LookupTitle(paper)
       IN
        IF key \in DOMAIN page_by_title
        THEN \E status \in Statuses :
            /\ updateCalls' = updateCalls \cup {<<idx, page_by_title[key]>>}
            /\ IF status = HTTP_OK
               THEN /\ updated' = updated + 1
                    /\ okUpdates' = okUpdates \cup {idx}
                    /\ UNCHANGED errors
               ELSE /\ errors' = Append(errors, [idx |-> idx, status |-> status])
                    /\ UNCHANGED <<updated, okUpdates>>
            /\ UNCHANGED <<remote, published_guids, created, createCalls,
                           okCreates, creates>>
        ELSE \E status \in Statuses :
            /\ createCalls' = createCalls \cup {idx}
            /\ remote' = RemoteAfterCreate(remote, paper, status)
            /\ published_guids' = MarkCreated(mode, paper, published_guids, status)
            /\ IF status = HTTP_OK
               THEN /\ created' = created + 1
                    /\ okCreates' = okCreates \cup {idx}
                    /\ creates' = [creates EXCEPT ![Identity(paper)] = @ + 1]
                    /\ UNCHANGED errors
               ELSE /\ errors' = Append(errors, [idx |-> idx, status |-> status])
                    /\ UNCHANGED <<created, okCreates, creates>>
            /\ UNCHANGED <<updated, updateCalls, okUpdates>>
    /\ idx' = idx + 1
    /\ UNCHANGED <<feed, disk, pc, mode, limit, loaded, page_by_title, savedArg,
                   saveOk, result, runs, prev>>

\* the loop is over: every paper seen, or publish's `created >= limit: break`
LoopDone ==
    \/ idx > Len(feed)
    \/ mode = "publish" /\ created >= limit

\* the dict the call returns, lines 432 and 480
CallResult(m, nCreated, nUpdated, errs) ==
    IF m = "publish"
    THEN [success |-> nCreated > 0, created |-> nCreated, errors |-> errs]
    ELSE [success |-> (nUpdated + nCreated) > 0, updated |-> nUpdated,
          created |-> nCreated, errors |-> errs]

\* lines 430-432 and 478-480: the set goes back into history, is saved, and
\* the call returns; the value save_publish_history returns is dropped
SaveAndReturn ==
    /\ UNCHANGED <<pipeVars, textVars, schemaVars, raceVars, mainVars>>
    /\ pc = "loop"
    /\ LoopDone
    /\ \E outcome \in SaveOutcomes :
        /\ disk' = SavePublishHistory(disk, published_guids, outcome)
        /\ saveOk' = (outcome = "ok")
    /\ savedArg' = published_guids
    /\ result' = CallResult(mode, created, updated, errors)
    /\ pc' = "done"
    /\ UNCHANGED <<feed, remote, mode, limit, idx, published_guids, loaded,
                   created, updated, errors, page_by_title, createCalls, okCreates,
                   updateCalls, okUpdates, runs, creates, prev>>

\* the call has returned; the next one may start
Finish ==
    /\ UNCHANGED <<pipeVars, textVars, schemaVars, raceVars, mainVars>>
    /\ pc = "done"
    /\ pc' = "idle"
    /\ mode' = "none"
    /\ limit' = DefaultLimit
    /\ result' = [success |-> FALSE]
    /\ ResetCall
    /\ prev' = [mode |-> mode, saved |-> savedArg, failed |-> createCalls \ okCreates]
    /\ UNCHANGED <<feed, remote, disk, runs, creates>>

PubNext ==
    \/ PublishStart
    \/ BackfillStart
    \/ BackfillList
    \/ LoadHistory
    \/ PublishRecord
    \/ BackfillRecord
    \/ SaveAndReturn
    \/ Finish

-----------------------------------------------------------------------------
(* Strings: a Python str is the sequence of its characters *)

\* str.lower on the letters the model uses
ToLower ==
    [c \in {"A","B","C","G","I","L","S","W"} |->
        CASE c = "A" -> "a" [] c = "B" -> "b" [] c = "C" -> "c" [] c = "G" -> "g"
          [] c = "I" -> "i" [] c = "L" -> "l" [] c = "S" -> "s" [] c = "W" -> "w"]

LowerChar(c) == IF c \in DOMAIN ToLower THEN ToLower[c] ELSE c

\* s.lower()
Lower(s) == [i \in 1..Len(s) |-> LowerChar(s[i])]

\* the characters str.strip removes
Whitespace == {" ", "\n", "\t"}

\* s.strip()
Strip(s) ==
    LET keep == { i \in 1..Len(s) : s[i] \notin Whitespace } IN
    IF keep = {} THEN <<>>
    ELSE SubSeq(s, CHOOSE i \in keep : \A j \in keep : i <= j,
                   CHOOSE i \in keep : \A j \in keep : j <= i)

\* s.startswith(p)
StartsWith(s, p) == Len(s) >= Len(p) /\ SubSeq(s, 1, Len(p)) = p

\* p in s
IsSubstring(p, s) == \E i \in 0..(Len(s) - Len(p)) : SubSeq(s, i + 1, i + Len(p)) = p

\* the position of the first c in s, 0 when there is none
FirstIndex(s, c) ==
    IF \A i \in 1..Len(s) : s[i] # c THEN 0
    ELSE CHOOSE i \in 1..Len(s) : s[i] = c /\ \A j \in 1..(i - 1) : s[j] # c

\* s.split(c) for a one-character separator
RECURSIVE Split(_, _)
Split(s, c) ==
    IF FirstIndex(s, c) = 0 THEN <<s>>
    ELSE <<SubSeq(s, 1, FirstIndex(s, c) - 1)>>
         \o Split(SubSeq(s, FirstIndex(s, c) + 1, Len(s)), c)

\* s.split(c, 1)[1]: what follows the first c (s holds one)
AfterFirst(s, c) == SubSeq(s, FirstIndex(s, c) + 1, Len(s))

\* sep.join(parts)
RECURSIVE Join(_, _)
Join(parts, sep) ==
    IF parts = <<>> THEN <<>>
    ELSE IF Len(parts) = 1 THEN parts[1]
    ELSE parts[1] \o sep \o Join(Tail(parts), sep)

\* s[:n]
Truncate(s, n) == SubSeq(s, 1, IF Len(s) < n THEN Len(s) ELSE n)

\* [f(x) for x in xs if x], f being strip: the stripped, non-empty pieces
RECURSIVE StrippedNonEmpty(_)
StrippedNonEmpty(xs) ==
    IF xs = <<>> THEN <<>>
    ELSE (IF Strip(Head(xs)) = <<>> THEN <<>> ELSE <<Strip(Head(xs))>>)
         \o StrippedNonEmpty(Tail(xs))

-----------------------------------------------------------------------------
(* run_pipeline *)

\* max_retries = 3
MaxRetries == 3

\* time.sleep(60)
BackoffSeconds == 60

\* the lists of papers a fetch returns in the model
PaperLists == { <<>>, <<"a">>, <<"a", "b">> }

\* what a call of fetch_latest_papers does: it raises, or returns a list
FetchOutcomes ==
    {[kind |-> "raise", value |-> <<>>]} \cup
    { [kind |-> "return", value |-> l] : l \in PaperLists }

\* process_papers filters: it keeps some of the papers, in order
Filtered(l) ==
    { s \in UNION { [1..n -> {"a", "b"}] : n \in 0..Len(l) } :
        \E keep \in SUBSET (1..Len(l)) :
            /\ Len(s) = Cardinality(keep)
            /\ \A i \in 1..Len(s) :
                 \E k \in keep : /\ s[i] = l[k]
                                 /\ Cardinality({j \in keep : j < k}) = i - 1 }

\* the local `config` before load_config has returned
Unbound == [bound |-> FALSE, history_enabled |-> FALSE, email_on_error |-> FALSE,
            keywords |-> <<>>]

\* config.get('keywords', []) in the model: none, and two lists of one keyword
KeywordConfigs ==
    { <<>>,
      << <<"a", " ", "b">> >>,
      << <<"a", "l", " ", "b">> >> }

PipeIdle ==
    /\ ppc = "off"
    /\ config = Unbound
    /\ retry_count = 0
    /\ outcomes = <<>>
    /\ papers = <<>>
    /\ sleeps = <<>>
    /\ processed_papers = <<>>
    /\ feedFiles = 0
    /\ historyFiles = 0
    /\ exc = "none"
    /\ notified = FALSE
    /\ presult = [returned |-> FALSE]
    /\ historyWrite = "none"
    /\ clock = 0
    /\ feedNames = <<>>
    /\ pruns = 0

PipeInit ==
    /\ ppc = "start"
    /\ config = Unbound
    /\ retry_count = 0
    /\ outcomes = <<>>
    /\ papers = <<>>
    /\ sleeps = <<>>
    /\ processed_papers = <<>>
    /\ feedFiles = 0
    /\ historyFiles = 0
    /\ exc = "none"
    /\ notified = FALSE
    /\ presult = [returned |-> FALSE]
    /\ historyWrite = "none"
    /\ clock = 0
    /\ feedNames = <<>>
    /\ pruns = 1

\* lines 220-232: load_config, the log line reading config['keywords'],
\* compute_fetch_params. load_config raising leaves `config` unbound; a raise
\* after it leaves it bound.
LoadConfig ==
    /\ UNCHANGED <<pubVars, textVars, schemaVars, raceVars, mainVars>>
    /\ ppc = "start"
    /\ \E how \in {"ok", "load_raises", "later_raises"},
          he \in BOOLEAN, eoe \in BOOLEAN, kws \in KeywordConfigs :
        /\ config' = IF how = "load_raises" THEN Unbound
                      ELSE [bound |-> TRUE, history_enabled |-> he,
                            email_on_error |-> eoe, keywords |-> kws]
        /\ IF how = "ok"
           THEN ppc' = "fetch" /\ exc' = "none"
           ELSE ppc' = "handler" /\ exc' = "config"
    /\ UNCHANGED <<retry_count, outcomes, papers, sleeps, processed_papers,
                   feedFiles, historyFiles, notified, presult, historyWrite,
                   clock, feedNames, pruns>>

\* line 247: if retry_count >= max_retries: raise
RetriesExhausted(rc) == rc >= MaxRetries

\* a loop that sleeps before it looks at the retry count
BackoffAlways(rc) == <<BackoffSeconds>>

\* a loop whose back-off grows with the attempt
BackoffLinear(rc) == IF RetriesExhausted(rc) THEN <<>> ELSE <<BackoffSeconds * rc>>

\* lines 247-249: the sleeps the except branch makes once retry_count is rc
Backoff(rc) == IF RetriesExhausted(rc) THEN <<>> ELSE <<BackoffSeconds>>

\* the clock n seconds after c
Later(c, n) == IF c + n > MaxClock THEN MaxClock ELSE c + n

\* lines 239-249: one pass of the retry loop. A non-empty list breaks out of
\* the loop; an empty list neither breaks nor counts as a retry; an exception
\* counts, and is re-raised on the third.
Fetch ==
    /\ UNCHANGED <<pubVars, textVars, schemaVars, raceVars, mainVars>>
    /\ ppc = "fetch"
    /\ retry_count < MaxRetries
    /\ Len(outcomes) < MaxFetchCalls
    /\ \E o \in FetchOutcomes :
        /\ outcomes' = Append(outcomes, o)
        /\ IF o.kind = "return"
           THEN /\ papers' = o.value
                /\ ppc' = IF o.value # <<>> THEN "filter" ELSE "fetch"
                /\ UNCHANGED <<retry_count, sleeps, exc, clock>>
           ELSE /\ retry_count' = retry_count + 1
                /\ sleeps' = sleeps \o Backoff(retry_count + 1)
                /\ clock' = Later(clock, Len(Backoff(retry_count + 1)))
                /\ IF RetriesExhausted(retry_count + 1)
                   THEN ppc' = "handler" /\ exc' = "fetch"
                   ELSE ppc' = "fetch" /\ UNCHANGED exc
                /\ UNCHANGED papers
    /\ UNCHANGED <<config, processed_papers, feedFiles, historyFiles, notified,
                   presult, historyWrite, feedNames, pruns>>

\* lines 254-257 and 298-304: process_papers, and the return when nothing
\* passed the filter
Filter ==
    /\ UNCHANGED <<pubVars, textVars, schemaVars, raceVars, mainVars>>
    /\ ppc = "filter"
    /\ \/ /\ ppc' = "handler"
          /\ exc' = "filter"
          /\ UNCHANGED <<processed_papers, presult>>
       \/ \E kept \in Filtered(papers) :
          /\ processed_papers' = kept
          /\ exc' = "none"
          /\ IF kept # <<>>
             THEN ppc' = "write" /\ UNCHANGED presult
             ELSE /\ ppc' = "done"
                  /\ presult' = [returned |-> TRUE, success |-> TRUE,
                                  papers_count |-> 0]
    /\ UNCHANGED <<config, retry_count, outcomes, papers, sleeps, feedFiles,
                   historyFiles, notified, historyWrite, clock, feedNames, pruns>>

\* c.upper() on the letters the model uses
UpperChar(c) ==
    IF \E u \in DOMAIN ToLower : ToLower[u] = c
    THEN CHOOSE u \in DOMAIN ToLower : ToLower[u] = c
    ELSE c

\* [w for w in word.split() if w], the words holding no whitespace but " "
Words(word) == SelectSeq(Split(word, " "), LAMBDA w : w # <<>>)

\* keyword_abbr, lines 264-265: the upper-cased first letters of the words
KeywordAbbr(word) == [i \in 1..Len(Words(word)) |-> UpperChar(Words(word)[i][1])]

\* lines 266-267: the abbreviations of the first three keywords joined by "_",
\* "ALL" without keywords
AbbrStr(kws) ==
    IF kws = <<>> THEN <<"A", "L", "L">>
    ELSE Join([i \in 1..(IF Len(kws) < 3 THEN Len(kws) ELSE 3) |-> KeywordAbbr(kws[i])],
              <<"_">>)

\* lines 259-268: f"{date_str}_{time_str}_{abbr_str}.xml", the date and the
\* time of day to the second
FeedFileName(second, kws) == [second |-> second, abbr |-> AbbrStr(kws)]

\* lines 258-279: the file name and generate_rss
WriteFeed ==
    /\ UNCHANGED <<pubVars, textVars, schemaVars, raceVars, mainVars>>
    /\ ppc = "write"
    /\ \/ /\ ppc' = "handler"
          /\ exc' = "write"
          /\ UNCHANGED <<feedFiles, feedNames>>
       \/ /\ ppc' = "history"
          /\ feedFiles' = feedFiles + 1
          /\ feedNames' = Append(feedNames, FeedFileName(clock, config.keywords))
          /\ UNCHANGED exc
    /\ UNCHANGED <<config, retry_count, outcomes, papers, sleeps,
                   processed_papers, historyFiles, notified, presult,
                   historyWrite, clock, pruns>>

\* what a call that raised gives in place of a value
Raised == "raise"

\* a save_history_record that lets the exception of a failed write out
SaveHistoryRecordRaising(cfg, writeOk) ==
    IF ~cfg.history_enabled THEN NoneVal
    ELSE IF writeOk THEN "id" ELSE Raised

\* save_history_record, lines 118-168: None when history is disabled or the
\* entry cannot be built or written, the new id otherwise
SaveHistoryRecord(cfg, writeOk) ==
    IF cfg.history_enabled /\ writeOk THEN "id" ELSE NoneVal

\* lines 281-297: the history entry and the return of a successful run. The
\* call is inside the try of line 216: an exception out of it would go to the
\* handler.
SaveHistory ==
    /\ UNCHANGED <<pubVars, textVars, schemaVars, raceVars, mainVars>>
    /\ ppc = "history"
    /\ \E writeOk \in BOOLEAN :
        LET history_id == SaveHistoryRecord(config, writeOk) IN
        /\ historyWrite' = IF ~config.history_enabled THEN "disabled"
                            ELSE IF writeOk THEN "ok" ELSE "failed"
        /\ IF history_id = Raised
           THEN /\ ppc' = "handler"
                /\ exc' = "history"
                /\ UNCHANGED <<historyFiles, presult>>
           ELSE /\ historyFiles' = IF history_id # NoneVal THEN historyFiles + 1
                                    ELSE historyFiles
                /\ presult' = [returned |-> TRUE, success |-> TRUE,
                                papers_count |-> Len(processed_papers),
                                history_id |-> history_id]
                /\ ppc' = "done"
                /\ UNCHANGED exc
    /\ UNCHANGED <<config, retry_count, outcomes, papers, sleeps,
                   processed_papers, feedFiles, notified, clock, feedNames, pruns>>

\* error_notifier.send_error_notification: called with the message, returns
SendErrorNotification(cfg) == cfg.email_on_error

\* lines 306-314: except Exception. config.get on the unbound local raises
\* out of run_pipeline; otherwise the notification, then the failure result.
Handler ==
    /\ UNCHANGED <<pubVars, textVars, schemaVars, raceVars, mainVars>>
    /\ ppc = "handler"
    /\ IF ~config.bound
       THEN /\ presult' = [returned |-> FALSE, raised |-> "UnboundLocalError"]
            /\ UNCHANGED notified
       ELSE /\ notified' = SendErrorNotification(config)
            /\ presult' = [returned |-> TRUE, success |-> FALSE, error |-> exc]
    /\ ppc' = "done"
    /\ UNCHANGED <<config, retry_count, outcomes, papers, sleeps,
                   processed_papers, feedFiles, historyFiles, exc, historyWrite,
                   clock, feedNames, pruns>>

\* a second of the clock goes by
Tick ==
    /\ UNCHANGED <<pubVars, textVars, schemaVars, raceVars, mainVars>>
    /\ ppc # "off"
    /\ clock < MaxClock
    /\ clock' = clock + 1
    /\ UNCHANGED <<ppc, config, retry_count, outcomes, papers, sleeps,
                   processed_papers, feedFiles, historyFiles, exc, notified,
                   presult, historyWrite, feedNames, pruns>>

\* run_pipeline is invoked again: its locals start afresh, the files the
\* earlier runs wrote stay
NextRun ==
    /\ UNCHANGED <<pubVars, textVars, schemaVars, raceVars, mainVars>>
    /\ ppc = "done"
    /\ pruns < MaxPipeRuns
    /\ ppc' = "start"
    /\ config' = Unbound
    /\ retry_count' = 0
    /\ outcomes' = <<>>
    /\ papers' = <<>>
    /\ sleeps' = <<>>
    /\ processed_papers' = <<>>
    /\ feedFiles' = 0
    /\ historyFiles' = 0
    /\ exc' = "none"
    /\ notified' = FALSE
    /\ presult' = [returned |-> FALSE]
    /\ historyWrite' = "none"
    /\ pruns' = pruns + 1
    /\ UNCHANGED <<clock, feedNames>>

PipeNext ==
    \/ LoadConfig
    \/ Fetch
    \/ Filter
    \/ WriteFeed
    \/ SaveHistory
    \/ Handler
    \/ Tick
    \/ NextRun

-----------------------------------------------------------------------------
(* match_keywords, extract_authors_and_abstract,                           *)
(* extract_categories_from_description                                     *)

\* abstract_text[:1900] and desc[:1900]
FieldLimit == 1900

LabelAuthors == <<"a","u","t","h","o","r","s",":">>
LabelCategories == <<"c","a","t","e","g","o","r","i","e","s",":">>

\* a matcher that lowers the text but not the keyword
RECURSIVE MatchKeywordsCaseKept(_, _, _)
MatchKeywordsCaseKept(t, d, kws) ==
    IF kws.none \/ kws.list = <<>> THEN <<>>
    ELSE (IF IsSubstring(Head(kws.list), Lower(t \o <<" ">> \o d))
          THEN <<Head(kws.list)>> ELSE <<>>)
         \o MatchKeywordsCaseKept(t, d, [kws EXCEPT !.list = Tail(@)])

\* match_keywords(title, description, keywords), lines 211-213
RECURSIVE MatchKeywordsFrom(_, _)
MatchKeywordsFrom(text, kws) ==
    IF kws = <<>> THEN <<>>
    ELSE (IF IsSubstring(Lower(Head(kws)), text) THEN <<Head(kws)>> ELSE <<>>)
         \o MatchKeywordsFrom(text, Tail(kws))

\* `keywords or []`
OrEmptyList(kws) == IF kws.none THEN <<>> ELSE kws.list

MatchKeywords(t, d, kws) ==
    MatchKeywordsFrom(Lower(t \o <<" ">> \o d), OrEmptyList(kws))

\* the comma-split, stripped, non-empty entries of what follows the label
LabelledEntries(line) == StrippedNonEmpty(Split(Strip(AfterFirst(line, ":")), ","))

\* the loop of extract_authors_and_abstract, lines 194-204, over the lines
\* that are left: the state is (authors, abstract_lines, found)
RECURSIVE AuthorsLoop(_, _, _, _)
AuthorsLoop(lines, auth, abs, found) ==
    IF lines = <<>> THEN [authors |-> auth, abstract_lines |-> abs]
    ELSE IF StartsWith(Lower(Head(lines)), LabelAuthors)
         THEN AuthorsLoop(Tail(lines), LabelledEntries(Head(lines)), abs, TRUE)
         ELSE AuthorsLoop(Tail(lines), auth,
                          IF found THEN Append(abs, Head(lines)) ELSE abs, found)

\* extract_authors_and_abstract(description), lines 190-209
ExtractAuthorsAndAbstract(d) ==
    IF d = <<>> THEN [authors |-> <<>>, abstract_text |-> <<>>]
    ELSE LET lines == StrippedNonEmpty(Split(d, "\n"))
             r == AuthorsLoop(lines, <<>>, <<>>, FALSE)
         IN [authors |-> r.authors,
             abstract_text |-> IF r.abstract_lines = <<>>
                               THEN Join(lines, <<" ">>)
                               ELSE Join(r.abstract_lines, <<" ">>)]

\* extract_categories_from_description(description), lines 273-281: the
\* entries of the first line that carries the label
RECURSIVE CategoriesLoop(_)
CategoriesLoop(lines) ==
    IF lines = <<>> THEN <<>>
    ELSE IF StartsWith(Lower(Strip(Head(lines))), LabelCategories)
         THEN LabelledEntries(Strip(Head(lines)))
         ELSE CategoriesLoop(Tail(lines))

ExtractCategoriesFromDescription(d) ==
    IF d = <<>> THEN <<>> ELSE CategoriesLoop(Split(d, "\n"))

\* lines 164-165 and 392-393: the Abstract content of the payload (the schema
\* having the property); nothing is written for an empty abstract
AbstractContent(abs) == Truncate(abs, FieldLimit)

\* the inputs of the model
TitleChoices == { <<>>, <<"A","b">>, <<"a"," ","b">> }
TextChoices == { <<>>, <<"B">>, <<"b","a">> }
KeywordChoices == { <<>>, <<"a">>, <<"A","B">>, <<"b"," ","b">>, <<"c">> }
KeywordLists ==
    {[none |-> TRUE, list |-> <<>>]} \cup
    { [none |-> FALSE, list |-> l] :
        l \in UNION { [1..n -> KeywordChoices] : n \in 0..MaxKeywords } }

LineChoices ==
    { <<"A","u","t","h","o","r","s",":"," ","A","."," ","S","m","i","t","h",","," ","B","."," ","L","e","e">>,
      <<"C","a","t","e","g","o","r","i","e","s",":"," ","c","s",".","A","I",","," ","c","s",".","L","G">>,
      <<"W","e"," ","s","h","o","w",".",".",".">>,
      <<" "," ","a","u","t","h","o","r","s",":","C"," ",",">>,
      <<" ">>,
      <<"L","a","t","e","r",".">> }
Descriptions ==
    { Join(ls, <<"\n">>) : ls \in UNION { [1..n -> LineChoices] : n \in 0..MaxLines } }

TextIdle ==
    /\ job = "off"
    /\ tpc = "off"
    /\ title = <<>>
    /\ description = <<>>
    /\ keywords = [none |-> TRUE, list |-> <<>>]
    /\ matched = <<>>
    /\ authors = <<>>
    /\ abstract_text = <<>>
    /\ categories = <<>>
    /\ abstract_written = <<>>

TextInit ==
    /\ tpc = "ready"
    /\ matched = <<>>
    /\ authors = <<>>
    /\ abstract_text = <<>>
    /\ categories = <<>>
    /\ abstract_written = <<>>
    /\ \/ /\ job = "match"
          /\ title \in TitleChoices
          /\ description \in TextChoices
          /\ keywords \in KeywordLists
       \/ /\ job = "extract"
          /\ title = <<>>
          /\ description \in Descriptions
          /\ keywords = [none |-> TRUE, list |-> <<>>]

\* the call matched = match_keywords(title, desc, config.get("keywords", []))
MatchCall ==
    /\ UNCHANGED <<pubVars, pipeVars, schemaVars, raceVars, mainVars>>
    /\ job = "match"
    /\ tpc = "ready"
    /\ matched' = MatchKeywords(title, description, keywords)
    /\ tpc' = "done"
    /\ UNCHANGED <<job, title, description, keywords, authors, abstract_text,
                   categories, abstract_written>>

\* build_properties_for_paper, lines 138, 164-165 and 184-187: the structured
\* fields of the description as they go into the payload
BuildProperties ==
    /\ UNCHANGED <<pubVars, pipeVars, schemaVars, raceVars, mainVars>>
    /\ job = "extract"
    /\ tpc = "ready"
    /\ authors' = ExtractAuthorsAndAbstract(description).authors
    /\ abstract_text' = ExtractAuthorsAndAbstract(description).abstract_text
    /\ categories' = ExtractCategoriesFromDescription(description)
    /\ abstract_written' =
          AbstractContent(ExtractAuthorsAndAbstract(description).abstract_text)
    /\ tpc' = "done"
    /\ UNCHANGED <<job, title, description, keywords, matched>>

TextNext ==
    \/ MatchCall
    \/ BuildProperties

-----------------------------------------------------------------------------
(* Schema reconciliation and the property payload *)

\* a map without keys: {} in Python
EmptyMap == [n \in {} |-> "none"]

\* "X" in properties_map and properties_map["X"].get("type") == t
HasProperty(pm, name, type) == name \in DOMAIN pm /\ pm[name] = type

\* get_database_properties, lines 31-42: {} for any answer but 200
GetDatabaseProperties(db, status) == IF status = HTTP_OK THEN db ELSE EmptyMap

\* the properties ensure_database_properties asks for, lines 51-62
RequiredProperties ==
    [n \in {"URL", "Authors", "Date", "Keywords", "Abstract", "ArXiv ID"} |->
        CASE n = "URL"      -> "url"
          [] n = "Authors"  -> "multi_select"
          [] n = "Date"     -> "date"
          [] n = "Keywords" -> "multi_select"
          [] n = "Abstract" -> "rich_text"
          [] n = "ArXiv ID" -> "rich_text"]

\* the item fields a feed document of the model carries
FieldNames == {"title", "Title", "link", "description", "pubDate", "guid", "category"}

\* field_name.lower() on those names
LowerName(f) ==
    CASE f = "Title"   -> "title"
      [] f = "pubDate" -> "pubdate"
      [] OTHER         -> f

\* guess_notion_type, lines 238-248
GuessNotionType(f) ==
    CASE LowerName(f) \in {"link"}                         -> "url"
      [] LowerName(f) \in {"pubdate", "updated"}           -> "date"
      [] LowerName(f) \in {"category", "keywords", "tags"} -> "multi_select"
      [] LowerName(f) \in {"title"}                        -> "title"
      [] OTHER                                             -> "rich_text"

\* the properties ensure_properties_from_xml asks for, lines 251-259: one per
\* field of the first item, the title-typed ones left out
XmlProperties(fields) ==
    [f \in { g \in fields : GuessNotionType(g) # "title" } |-> GuessNotionType(f)]

\* `need`: the required properties the map lacks or has with another type
Need(required, pm) ==
    [n \in { m \in DOMAIN required : ~HasProperty(pm, m, required[m]) } |-> required[n]]

\* the remote schema after a PATCH of `need` answered `status`
PatchDatabase(db, need, status) ==
    IF status = HTTP_OK
    THEN [n \in DOMAIN need \cup DOMAIN db |->
            IF n \in DOMAIN need THEN need[n] ELSE db[n]]
    ELSE db

\* find_title_property, lines 72-76
FindTitleProperty(pm) ==
    IF \E k \in DOMAIN pm : pm[k] = "title"
    THEN CHOOSE k \in DOMAIN pm : pm[k] = "title"
    ELSE "Name"

\* what of a paper decides the payload: which of its values are truthy
Papers ==
    { [link |-> TRUE,  authors |-> TRUE,  pub_dt |-> TRUE,  matched |-> TRUE,
       abstract_text |-> TRUE,  arxiv_id |-> TRUE,  desc |-> TRUE,  guid |-> TRUE,
       cats |-> TRUE],
      [link |-> TRUE,  authors |-> FALSE, pub_dt |-> FALSE, matched |-> FALSE,
       abstract_text |-> TRUE,  arxiv_id |-> FALSE, desc |-> TRUE,  guid |-> TRUE,
       cats |-> FALSE],
      [link |-> FALSE, authors |-> FALSE, pub_dt |-> FALSE, matched |-> FALSE,
       abstract_text |-> FALSE, arxiv_id |-> FALSE, desc |-> FALSE, guid |-> FALSE,
       cats |-> FALSE] }

\* the keys the payload may carry besides the title, each with the type of
\* the value written and the paper value that must be truthy
PayloadFields ==
    [n \in {"URL", "Authors", "Date", "Keywords", "Abstract", "ArXiv ID",
            "link", "pubDate", "description", "guid", "category"} |->
        CASE n = "URL"         -> [type |-> "url",          value |-> "link"]
          [] n = "Authors"     -> [type |-> "multi_select", value |-> "authors"]
          [] n = "Date"        -> [type |-> "date",         value |-> "pub_dt"]
          [] n = "Keywords"    -> [type |-> "multi_select", value |-> "matched"]
          [] n = "Abstract"    -> [type |-> "rich_text",    value |-> "abstract_text"]
          [] n = "ArXiv ID"    -> [type |-> "rich_text",    value |-> "arxiv_id"]
          [] n = "link"        -> [type |-> "url",          value |-> "link"]
          [] n = "pubDate"     -> [type |-> "date",         value |-> "pub_dt"]
          [] n = "description" -> [type |-> "rich_text",    value |-> "desc"]
          [] n = "guid"        -> [type |-> "rich_text",    value |-> "guid"]
          [] n = "category"    -> [type |-> "multi_select", value |-> "cats"]]

\* the gate of one key, lines 147-152 with 156-187 and 351-356 with 384-414
Supported(pm, n) == HasProperty(pm, n, PayloadFields[n].type)

\* build_properties_for_paper, lines 135-188, and the same code inline in
\* publish, lines 379-414: the title under title_prop, then every key whose
\* gate is open and whose value is truthy
BuildPropertiesForPaper(pm, paper, tp) ==
    LET written == { n \in DOMAIN PayloadFields :
                        Supported(pm, n) /\ paper[PayloadFields[n].value] }
    IN [n \in {tp} \cup written |->
            IF n \in written THEN PayloadFields[n].type ELSE "title"]

\* the schemas the remote database starts with
RemoteSchemas ==
    { [n \in {"Name"} |-> "title"],
      [n \in {"Name"} \cup DOMAIN RequiredProperties |->
          IF n = "Name" THEN "title" ELSE RequiredProperties[n]],
      [n \in {"Title", "URL", "Authors"} |->
          CASE n = "Title" -> "title" [] n = "URL" -> "rich_text"
            [] n = "Authors" -> "multi_select"] }

\* the feed document as setup sees it: none, one without items, two with
FeedDocuments ==
    { [exists |-> FALSE, fields |-> {}],
      [exists |-> TRUE,  fields |-> {}],
      [exists |-> TRUE,  fields |-> {"title", "link", "description", "pubDate", "guid"}],
      [exists |-> TRUE,  fields |-> {"Title", "link", "category"}] }

SchemaIdle ==
    /\ spc = "off"
    /\ schema = EmptyMap
    /\ rss = [exists |-> FALSE, fields |-> {}]
    /\ entry = "none"
    /\ reconciler = "none"
    /\ properties_map = EmptyMap
    /\ title_prop = "Name"
    /\ patchCalls = 0
    /\ payload = EmptyMap
    /\ sruns = 0
    /\ prevReconciler = "none"
    /\ remoteFaults = FALSE

SchemaInit ==
    /\ spc = "idle"
    /\ schema \in RemoteSchemas
    /\ rss \in FeedDocuments
    /\ entry = "none"
    /\ reconciler = "none"
    /\ properties_map = EmptyMap
    /\ title_prop = "Name"
    /\ patchCalls = 0
    /\ payload = EmptyMap
    /\ sruns = 0
    /\ prevReconciler = "none"
    /\ remoteFaults = FALSE

\* lines 323, 348 and 449: properties_map = get_database_properties(...).
\* publish and backfill need a feed document with papers in it.
FetchSchema ==
    /\ UNCHANGED <<pubVars, pipeVars, textVars, raceVars, mainVars>>
    /\ spc = "idle"
    /\ sruns < MaxSchemaRuns
    /\ \E e \in {"setup", "publish", "backfill"}, status \in Statuses :
        /\ e # "setup" => rss.exists /\ rss.fields # {}
        /\ entry' = e
        /\ properties_map' = GetDatabaseProperties(schema, status)
        /\ remoteFaults' = (status # HTTP_OK)
    /\ spc' = "ensure"
    /\ sruns' = sruns + 1
    /\ UNCHANGED <<schema, rss, reconciler, title_prop, patchCalls, payload,
                   prevReconciler>>

\* ensure_database_properties, lines 44-70, and ensure_properties_from_xml,
\* lines 250-271, followed by find_title_property: no request when nothing is
\* needed; otherwise one PATCH and, when it answers 200, the schema fetched
\* again
EnsureProperties ==
    /\ UNCHANGED <<pubVars, pipeVars, textVars, raceVars, mainVars>>
    /\ spc = "ensure"
    /\ LET xml == entry = "setup" /\ rss.exists
           required == IF xml THEN XmlProperties(rss.fields) ELSE RequiredProperties
           need == Need(required, properties_map)
       IN
        /\ reconciler' = IF xml THEN "xml" ELSE "fixed"
        /\ IF DOMAIN need = {}
           THEN UNCHANGED <<schema, properties_map, patchCalls, remoteFaults>>
           ELSE \E status \in Statuses, again \in Statuses :
                /\ patchCalls' = patchCalls + 1
                /\ remoteFaults' = (remoteFaults \/ status # HTTP_OK
                                     \/ (status = HTTP_OK /\ again # HTTP_OK))
                /\ schema' = PatchDatabase(schema, need, status)
                /\ properties_map' =
                      IF status = HTTP_OK
                      THEN GetDatabaseProperties(PatchDatabase(schema, need, status), again)
                      ELSE properties_map
    /\ title_prop' = FindTitleProperty(properties_map')
    /\ spc' = IF entry = "setup" THEN "done" ELSE "build"
    /\ UNCHANGED <<rss, entry, payload, sruns, prevReconciler>>

\* lines 379-424 and 461-470: the payload of a paper goes out with
\* create_page or update_page
SendPage ==
    /\ UNCHANGED <<pubVars, pipeVars, textVars, raceVars, mainVars>>
    /\ spc = "build"
    /\ \E paper \in Papers :
        payload' = BuildPropertiesForPaper(properties_map, paper, title_prop)
    /\ spc' = "done"
    /\ UNCHANGED <<schema, rss, entry, reconciler, properties_map, title_prop,
                   patchCalls, sruns, prevReconciler, remoteFaults>>

\* the entry point has returned; the next one may start
SchemaFinish ==
    /\ UNCHANGED <<pubVars, pipeVars, textVars, raceVars, mainVars>>
    /\ spc = "done"
    /\ spc' = "idle"
    /\ prevReconciler' = reconciler
    /\ entry' = "none"
    /\ reconciler' = "none"
    /\ properties_map' = EmptyMap
    /\ title_prop' = "Name"
    /\ patchCalls' = 0
    /\ payload' = EmptyMap
    /\ remoteFaults' = FALSE
    /\ UNCHANGED <<schema, rss, sruns>>

SchemaNext ==
    \/ FetchSchema
    \/ EnsureProperties
    \/ SendPage
    \/ SchemaFinish

-----------------------------------------------------------------------------
(* Two calls of publish_from_latest_rss at once *)

\* the two calls; nothing in the publisher keeps one from running while the
\* other does
Callers == {"first", "second"}

\* the locals of a call that has got past its early returns (lines 334-356)
FreshCall == [pc |-> "load", idx |-> 1, published_guids |-> {}, created |-> 0,
              okCreates |-> {}]

RaceIdle ==
    /\ raceFeed = <<>>
    /\ ledger = NoFile
    /\ call = [c \in Callers |-> [FreshCall EXCEPT !.pc = "off"]]
    /\ staleSave = {}
    /\ fileFault = FALSE

RaceInit ==
    /\ raceFeed \in { f \in Feeds : Len(f) > 0 }
    /\ ledger = NoFile
    /\ call = [c \in Callers |-> FreshCall]
    /\ staleSave = {}
    /\ fileFault = FALSE

\* lines 357-358: history = load_publish_history()
ConcurrentLoad(c) ==
    /\ UNCHANGED <<pubVars, pipeVars, textVars, schemaVars, mainVars>>
    /\ call[c].pc = "load"
    /\ \E readOk \in BOOLEAN :
        /\ call' = [call EXCEPT ![c].published_guids = LoadPublishHistory(ledger, readOk),
                                ![c].pc = "loop"]
        /\ fileFault' = (fileFault \/ LoadPublishHistory(ledger, readOk)
                                        # LoadPublishHistory(ledger, TRUE))
    /\ UNCHANGED <<raceFeed, ledger, staleSave>>

\* the body of the loop, lines 361-429, for one paper
ConcurrentRecord(c) ==
    /\ UNCHANGED <<pubVars, pipeVars, textVars, schemaVars, mainVars>>
    /\ call[c].pc = "loop"
    /\ call[c].idx <= Len(raceFeed)
    /\ call[c].created < DefaultLimit
    /\ LET paper == raceFeed[call[c].idx] IN
        IF AlreadyPublished(paper, call[c].published_guids)
        THEN call' = [call EXCEPT ![c].idx = @ + 1]
        ELSE \E status \in Statuses :
            call' = [call EXCEPT
                ![c].idx = @ + 1,
                ![c].published_guids = MarkCreated("publish", paper, @, status),
                ![c].created = IF status = HTTP_OK THEN @ + 1 ELSE @,
                ![c].okCreates = IF status = HTTP_OK THEN @ \cup {call[c].idx} ELSE @]
    /\ UNCHANGED <<raceFeed, ledger, staleSave, fileFault>>

\* lines 430-432: the set goes back into history, is saved, the call returns.
\* A call that has loaded the file and not yet saved holds a copy the save of
\* another call makes stale.
ConcurrentSave(c) ==
    /\ UNCHANGED <<pubVars, pipeVars, textVars, schemaVars, mainVars>>
    /\ call[c].pc = "loop"
    /\ call[c].idx > Len(raceFeed) \/ call[c].created >= DefaultLimit
    /\ \E outcome \in SaveOutcomes :
        /\ ledger' = SavePublishHistory(ledger, call[c].published_guids, outcome)
        /\ fileFault' = (fileFault \/ outcome # "ok")
    /\ staleSave' = staleSave \cup { d \in Callers \ {c} : call[d].pc = "loop" }
    /\ call' = [call EXCEPT ![c].pc = "done"]
    /\ UNCHANGED raceFeed

RaceNext ==
    \/ \E c \in Callers : ConcurrentLoad(c)
    \/ \E c \in Callers : ConcurrentRecord(c)
    \/ \E c \in Callers : ConcurrentSave(c)

-----------------------------------------------------------------------------
(* main(): the one-shot entry point *)

\* the local `config` of main() before load_config has returned
MainUnbound == [bound |-> FALSE, history_enabled |-> FALSE,
                email_on_error |-> FALSE, email_address |-> FALSE]

MainIdle ==
    /\ mpc = "off"
    /\ mconfig = MainUnbound
    /\ mfetches = <<>>
    /\ mpapers = <<>>
    /\ mprocessed = <<>>
    /\ mfeedFiles = 0
    /\ mhistoryFiles = 0
    /\ mexc = "none"
    /\ mnotified = "none"
    /\ exit_code = "running"

MainInit ==
    /\ mpc = "start"
    /\ mconfig = MainUnbound
    /\ mfetches = <<>>
    /\ mpapers = <<>>
    /\ mprocessed = <<>>
    /\ mfeedFiles = 0
    /\ mhistoryFiles = 0
    /\ mexc = "none"
    /\ mnotified = "none"
    /\ exit_code = "running"

\* lines 339-347: load_config, compute_fetch_params, config.copy(). load_config
\* raising leaves `config` unbound; a raise after it leaves it bound.
MainLoadConfig ==
    /\ UNCHANGED <<pubVars, pipeVars, textVars, schemaVars, raceVars>>
    /\ mpc = "start"
    /\ \E how \in {"ok", "load_raises", "later_raises"},
          he \in BOOLEAN, eoe \in BOOLEAN, addr \in BOOLEAN :
        /\ mconfig' = IF how = "load_raises" THEN MainUnbound
                       ELSE [bound |-> TRUE, history_enabled |-> he,
                             email_on_error |-> eoe, email_address |-> addr]
        /\ IF how = "ok"
           THEN mpc' = "fetch" /\ mexc' = "none"
           ELSE mpc' = "except" /\ mexc' = "config"
    /\ UNCHANGED <<mfetches, mpapers, mprocessed, mfeedFiles, mhistoryFiles,
                   mnotified, exit_code>>

\* lines 349-350: the one call of fetch_latest_papers. There is no loop around
\* it: an exception goes to the except of line 371, any list goes on.
MainFetch ==
    /\ UNCHANGED <<pubVars, pipeVars, textVars, schemaVars, raceVars>>
    /\ mpc = "fetch"
    /\ \E o \in FetchOutcomes :
        /\ mfetches' = Append(mfetches, o)
        /\ IF o.kind = "return"
           THEN mpapers' = o.value /\ mpc' = "process" /\ UNCHANGED mexc
           ELSE mpc' = "except" /\ mexc' = "fetch" /\ UNCHANGED mpapers
    /\ UNCHANGED <<mconfig, mprocessed, mfeedFiles, mhistoryFiles, mnotified,
                   exit_code>>

\* lines 353-354: process_papers
MainProcess ==
    /\ UNCHANGED <<pubVars, pipeVars, textVars, schemaVars, raceVars>>
    /\ mpc = "process"
    /\ \/ mpc' = "except" /\ mexc' = "filter" /\ UNCHANGED mprocessed
       \/ \E kept \in Filtered(mpapers) :
            mprocessed' = kept /\ mpc' = "write" /\ UNCHANGED mexc
    /\ UNCHANGED <<mconfig, mfetches, mpapers, mfeedFiles, mhistoryFiles,
                   mnotified, exit_code>>

\* lines 357-362: the file name and generate_rss, whatever passed the filter
MainWriteFeed ==
    /\ UNCHANGED <<pubVars, pipeVars, textVars, schemaVars, raceVars>>
    /\ mpc = "write"
    /\ \/ mpc' = "except" /\ mexc' = "write" /\ UNCHANGED mfeedFiles
       \/ mpc' = "history" /\ mfeedFiles' = mfeedFiles + 1 /\ UNCHANGED mexc
    /\ UNCHANGED <<mconfig, mfetches, mpapers, mprocessed, mhistoryFiles,
                   mnotified, exit_code>>

\* lines 365-369: the history entry, and main() returns
MainSaveHistory ==
    /\ UNCHANGED <<pubVars, pipeVars, textVars, schemaVars, raceVars>>
    /\ mpc = "history"
    /\ \E writeOk \in BOOLEAN :
        mhistoryFiles' = IF SaveHistoryRecord(mconfig, writeOk) # NoneVal
                         THEN mhistoryFiles + 1 ELSE mhistoryFiles
    /\ mpc' = "exited"
    /\ exit_code' = "0"
    /\ UNCHANGED <<mconfig, mfetches, mpapers, mprocessed, mfeedFiles, mexc,
                   mnotified>>

\* lines 377-383: the notification of the except branch. config.get on the
\* unbound local and send_notification raising are both caught by the inner
\* except.
MainNotification(cfg, sendOk) ==
    IF cfg.bound /\ cfg.email_on_error /\ cfg.email_address
    THEN (IF sendOk THEN "sent" ELSE "failed")
    ELSE "none"

\* lines 371-386: except Exception, the notification, sys.exit(1)
MainExcept ==
    /\ UNCHANGED <<pubVars, pipeVars, textVars, schemaVars, raceVars>>
    /\ mpc = "except"
    /\ \E sendOk \in BOOLEAN : mnotified' = MainNotification(mconfig, sendOk)
    /\ mpc' = "exited"
    /\ exit_code' = "1"
    /\ UNCHANGED <<mconfig, mfetches, mpapers, mprocessed, mfeedFiles,
                   mhistoryFiles, mexc>>

MainNext ==
    \/ MainLoadConfig
    \/ MainFetch
    \/ MainProcess
    \/ MainWriteFeed
    \/ MainSaveHistory
    \/ MainExcept

-----------------------------------------------------------------------------
(* Specifications *)

PubIdle ==
    /\ feed = <<>>
    /\ remote = EmptyDatabase
    /\ disk = NoFile
    /\ pc = "off"
    /\ mode = "none"
    /\ limit = DefaultLimit
    /\ idx = 1
    /\ published_guids = {}
    /\ loaded = {}
    /\ created = 0
    /\ updated = 0
    /\ errors = <<>>
    /\ page_by_title = << >>
    /\ createCalls = {}
    /\ okCreates = {}
    /\ updateCalls = {}
    /\ okUpdates = {}
    /\ savedArg = {}
    /\ saveOk = FALSE
    /\ result = [success |-> FALSE]
    /\ runs = 0
    /\ creates = [i \in Identities |-> 0]
    /\ prev = [mode |-> "none"]

\* the publisher: publish and backfill calls, one after the other
Init == PubInit /\ PipeIdle /\ TextIdle /\ SchemaIdle /\ RaceIdle /\ MainIdle

Spec == Init /\ [][PubNext]_vars

\* runs of run_pipeline, one after the other
InitFetch == PipeInit /\ PubIdle /\ TextIdle /\ SchemaIdle /\ RaceIdle /\ MainIdle

SpecFetch == InitFetch /\ [][PipeNext]_vars

InitText == TextInit /\ PubIdle /\ PipeIdle /\ SchemaIdle /\ RaceIdle /\ MainIdle

\* one call of a text function on inputs drawn from the sets above
SpecText == InitText /\ [][TextNext]_vars

InitSchema == SchemaInit /\ PubIdle /\ PipeIdle /\ TextIdle /\ RaceIdle /\ MainIdle

\* setup, publish and backfill reconciling the schema, one after the other
SpecSchema == InitSchema /\ [][SchemaNext]_vars

InitRace == RaceInit /\ PubIdle /\ PipeIdle /\ TextIdle /\ SchemaIdle /\ MainIdle

\* two publish calls at once, their steps interleaved in every order
SpecRace == InitRace /\ [][RaceNext]_vars

InitMain == MainInit /\ PubIdle /\ PipeIdle /\ TextIdle /\ SchemaIdle /\ RaceIdle

\* one run of main()
SpecMain == InitMain /\ [][MainNext]_vars

-----------------------------------------------------------------------------
(* Claims about the publisher *)

\* the call in progress got past its early returns
Completed == pc = "done" /\ "error" \notin DOMAIN result

\* both records of the feed carry the identity "X"
TwoRecordsIdentityX ==
    /\ Len(feed) = 2
    /\ Identity(feed[1]) = "X"
    /\ Identity(feed[2]) = "X"

\* C1: across any sequence of publish and backfill calls over the same feed,
\* with remote calls and ledger reads and writes allowed to fail, every record
\* identity is the subject of at most one create_page that returned 200.
C1_AtMostOneCreatePerIdentity ==
    \A i \in RealIdentities : creates[i] <= 1

\* C2: a record whose identity is in the ledger publish_from_latest_rss loaded
\* is never handed to create_page by that call, and the identity is in the
\* ledger the call persists (in the set it hands to save_publish_history, and
\* in the file when the write succeeds).
C2_LedgerEntriesSkippedAndKept ==
    mode = "publish" =>
        /\ \A k \in 1..Len(feed) :
              Identity(feed[k]) \in loaded => k \notin createCalls
        /\ Completed => /\ loaded \subseteq savedArg
                        /\ saveOk => loaded \subseteq disk.guids

\* C2 witness: a publish call has finished and saved; it had loaded "X", the
\* feed holds a record of identity "X" and another record that was created.
C2_Witness ==
    /\ mode = "publish"
    /\ Completed
    /\ saveOk
    /\ "X" \in loaded
    /\ \E k \in 1..Len(feed) : Identity(feed[k]) = "X"
    /\ okCreates # {}

\* the non-empty identities of a set of feed positions
RealIdentitiesOf(positions) ==
    { Identity(feed[k]) : k \in positions } \cap RealIdentities

\* C3: the ledger a completed publish or backfill call persists is the ledger
\* it loaded united with exactly the identities of the records whose
\* create_page or update_page returned 200 in that call. (Stated on the
\* non-empty identities.)
C3_PersistedIsLoadedPlusDelivered ==
    Completed =>
        savedArg \cap RealIdentities =
            (loaded \cap RealIdentities) \cup RealIdentitiesOf(okCreates \cup okUpdates)

\* C4 as stated: with two records of identity "X" and an empty ledger the first
\* publish call creates both (no create_page failing, the limit allowing two);
\* a second publish call that loads the resulting ledger creates none.
C4_BothCreatedThenNone ==
    (mode = "publish" /\ TwoRecordsIdentityX) =>
        /\ (Completed /\ loaded = {} /\ errors = <<>> /\ limit >= 2) => created = 2
        /\ (pc \in {"loop", "done"} /\ prev.mode = "publish" /\ "X" \in prev.saved
              /\ loaded = prev.saved) => createCalls = {}

\* C4 amended: the first publish call creates at most one of the two records,
\* and exactly the first when no create_page fails (the second is skipped
\* inside the same call, "X" being in the in-memory set by then); a second
\* publish call that loads the resulting ledger, which holds "X", creates none.
C4_OneCreatedThenNone ==
    (mode = "publish" /\ TwoRecordsIdentityX) =>
        /\ Cardinality(okCreates) <= 1
        /\ created = Cardinality(okCreates)
        /\ (Completed /\ loaded = {} /\ errors = <<>>) => okCreates = {1}
        /\ (pc \in {"loop", "done"} /\ prev.mode = "publish" /\ "X" \in prev.saved
              /\ loaded = prev.saved) => createCalls = {}

\* C4 witness: the second publish call over two different records of identity
\* "X" has finished without a create_page; the first call had created exactly
\* one page and saved the ledger {"X"}, which the second call loaded.
C4_Witness ==
    /\ mode = "publish"
    /\ TwoRecordsIdentityX
    /\ feed[1] # feed[2]
    /\ Completed
    /\ runs = 2
    /\ prev.mode = "publish"
    /\ prev.saved = {"X"}
    /\ loaded = prev.saved
    /\ createCalls = {}
    /\ creates["X"] = 1

\* what the next load_publish_history reads from a ledger file, the records
\* without an identity left aside
Readable(d) == LoadPublishHistory(d, TRUE) \cap RealIdentities

\* the step in which a call that got past its early returns saves and returns
SaveStep == pc = "loop" /\ pc' = "done"

\* C11: when save_publish_history fails at any point of its write, the
\* ledger file still holds the complete set it held before the call, so the
\* next load_publish_history returns that set; the call returns its result all
\* the same.
C11_FailedSaveKeepsPriorLedger ==
    [][(SaveStep /\ ~saveOk') =>
          /\ Readable(disk') = Readable(disk)
          /\ "success" \in DOMAIN result']_vars

\* C12: every identity that is in the ledger file before a publish or backfill
\* call is in it after the call, a call whose read of the file failed
\* included. (Stated on the calls whose write succeeds.)
C12_LedgerFileMonotonic ==
    [][(SaveStep /\ saveOk') => Readable(disk) \subseteq Readable(disk')]_vars

\* the update_page calls made for the record at feed position k
UpdatesFor(k) == { u \in updateCalls : u[1] = k }

\* C15: in backfill, a record whose title equals the title of an entity of the
\* listing has update_page called on an entity with that title and no
\* create_page; a record whose title matches no listed entity has create_page
\* called and no update_page. With one remote entity "Foo", one record "Foo"
\* and the update answering 200 the result is updated = 1, created = 0.
C15_TitleMatchUpdatesElseCreates ==
    (mode = "backfill" /\ pc \in {"loop", "done"}) =>
        /\ \A k \in 1..(idx - 1) :
             IF feed[k].title # NoneVal /\ feed[k].title \in DOMAIN page_by_title
             THEN /\ k \notin createCalls
                  /\ UpdatesFor(k) # {}
                  /\ \A u \in UpdatesFor(k) : /\ u[2][1] = feed[k].title
                                              /\ u[2] \in PagesOf(remote)
             ELSE /\ k \in createCalls
                  /\ UpdatesFor(k) = {}
        /\ (/\ Completed
            /\ Len(feed) = 1
            /\ feed[1].title = "Foo"
            /\ remote = [EmptyDatabase EXCEPT !["Foo"] = 1]
            /\ okUpdates = {1}) => (result.updated = 1 /\ result.created = 0)

\* C15 witness: a backfill over two records has returned; the first record
\* was updated on the listed entity with its title, the second was created.
C15_Witness ==
    /\ mode = "backfill"
    /\ Completed
    /\ Len(feed) = 2
    /\ okUpdates = {1}
    /\ okCreates = {2}
    /\ result.updated = 1
    /\ result.created = 1

\* C20: when the write of the ledger fails at the end of a publish or backfill
\* call, the result the call returns differs from the result of the same call
\* with a write that succeeds.
C20_PersistFailureIsReported ==
    (Completed /\ ~saveOk) => result # CallResult(mode, created, updated, errors)

\* the feed positions whose create_page was rejected in the running call
Failed == createCalls \ okCreates

\* what holds of a publish call whatever its records: a record the loop has
\* passed was handed to create_page unless its identity was in the set, the
\* loop ends only at the end of the feed or at the limit, and the error list
\* has one entry per rejected create_page
BatchGoesOn ==
    /\ \A k \in 1..(idx - 1) :
          k \in createCalls \/ Identity(feed[k]) \in published_guids
    /\ Completed => (idx > Len(feed) \/ created >= limit)
    /\ Len(errors) = Cardinality(Failed)
    /\ { errors[i].idx : i \in 1..Len(errors) } = Failed

\* C19 as stated: in publish a rejected create_page does not stop the batch
\* and is appended to the error list, the identity of the rejected record is
\* not in the ledger the call persists, and the next publish call over the
\* same records hands the record to create_page again (unless it reaches its
\* limit first). (Stated on the records that carry an identity.)
C19_FailedRecordNotInLedgerAndRetried ==
    (mode = "publish" /\ pc \in {"loop", "done"}) =>
        /\ BatchGoesOn
        /\ Completed =>
              \A k \in Failed : Truthy(Identity(feed[k])) =>
                  Identity(feed[k]) \notin savedArg
        /\ (Completed /\ prev.mode = "publish") =>
              \A k \in prev.failed : Truthy(Identity(feed[k])) =>
                  (k \in createCalls \/ created >= limit)

\* C19 amended: the rejection itself adds nothing to the ledger, which is the
\* ledger loaded plus the identities of the records created, so the identity
\* of a rejected record is in it only when another record of the same identity
\* was created in the call; and the next publish call hands the record to
\* create_page again unless its identity is in the ledger it loads, an earlier
\* record of the same identity is created first, or the limit is reached.
C19_FailureAddsNothingAndIsRetried ==
    (mode = "publish" /\ pc \in {"loop", "done"}) =>
        /\ BatchGoesOn
        /\ published_guids = loaded \cup { Identity(feed[j]) : j \in okCreates }
        /\ Completed => savedArg = published_guids
        /\ (Completed /\ prev.mode = "publish") =>
              \A k \in prev.failed :
                  \/ k \in createCalls
                  \/ created >= limit
                  \/ Identity(feed[k]) \in loaded
                  \/ \E j \in okCreates : j < k /\ Identity(feed[j]) = Identity(feed[k])

\* C19 witness: the second of two publish calls over two records of different
\* identities has returned. In the first call the create_page of the first
\* record was rejected and the second record was created all the same, its
\* identity saved and not the first's; the second call created the first.
C19_Witness ==
    /\ mode = "publish"
    /\ Completed
    /\ Len(feed) = 2
    /\ Identity(feed[1]) # Identity(feed[2])
    /\ prev.mode = "publish"
    /\ prev.failed = {1}
    /\ prev.saved = {Identity(feed[2])}
    /\ loaded = prev.saved
    /\ okCreates = {1}

\* the record carries no identity: no guid and no link, or both empty
LacksIdentity(paper) == ~Truthy(Identity(paper))

\* C21: records that lack an identity are kept out of the ledger: neither the
\* in-memory set nor the ledger file ever holds an empty or null identity, and
\* no record that lacks an identity is skipped by publish as already
\* delivered.
C21_NoIdentityNoLedgerEntry ==
    /\ \A i \in published_guids \cup disk.guids : Truthy(i)
    /\ (mode = "publish" /\ pc \in {"loop", "done"}) =>
          \A k \in 1..(idx - 1) : LacksIdentity(feed[k]) => k \in createCalls

\* C28: within one backfill call at most one remote entity is created per
\* title: of two records with the same title only the first is created, the
\* second is matched to the entity created for the first.
C28_OneCreatePerTitleInBackfill ==
    mode = "backfill" =>
        \A i \in okCreates : \A j \in okCreates :
            (i # j /\ feed[i].title # NoneVal) => feed[i].title # feed[j].title

\* C22: backfill makes its first update_page or create_page only after the
\* listing has been drained: the title index it matches against holds the
\* title of every entity the remote database had when it was listed, also
\* when a request of the listing answered another status than 200.
C22_IndexHoldsEveryListedEntity ==
    (mode = "backfill" /\ pc = "load") =>
        \A p \in PagesOf(remote) : p[1] \in DOMAIN page_by_title

-----------------------------------------------------------------------------
(* Claims about run_pipeline *)

IsEmptyReturn(o) == o.kind = "return" /\ o.value = <<>>
IsListReturn(o) == o.kind = "return" /\ o.value # <<>>

\* C5: whatever fetch_latest_papers does on each call (raise, return an empty
\* list, return a non-empty list), the retry loop ends after at most 3 calls
\* of it.
C5_AtMostThreeFetchCalls ==
    Len(outcomes) <= MaxRetries

\* C6: once a call of fetch_latest_papers has returned an empty list without
\* raising, run_pipeline makes no further fetch call: the empty return is the
\* last call, and filtering runs on the empty list.
C6_EmptyResultNotRetried ==
    \A i \in 1..Len(outcomes) :
        IsEmptyReturn(outcomes[i]) =>
            /\ i = Len(outcomes)
            /\ ppc \in {"filter", "write", "history", "done"} => papers = <<>>

\* the fetch raised on attempts 1 and 2 and returned a non-empty list on 3
RaisedTwiceThenList ==
    /\ Len(outcomes) >= 3
    /\ outcomes[1].kind = "raise"
    /\ outcomes[2].kind = "raise"
    /\ IsListReturn(outcomes[3])

\* the fetch raised on attempts 1, 2 and 3
RaisedThrice ==
    /\ Len(outcomes) >= 3
    /\ \A i \in 1..3 : outcomes[i].kind = "raise"

\* C7: when the fetch raises on attempts 1 and 2 and returns a non-empty list
\* on attempt 3, run_pipeline goes on with exactly that list after exactly two
\* 60-second waits (one after each failed attempt, none after the success),
\* makes no fourth call, and no fetch exception leaves the retry loop.
C7_ThirdAttemptSucceeds ==
    RaisedTwiceThenList =>
        /\ Len(outcomes) = 3
        /\ papers = outcomes[3].value
        /\ sleeps = <<60, 60>>
        /\ ppc # "fetch"
        /\ exc # "fetch"
        /\ ppc \in {"write", "history"} => processed_papers \in Filtered(outcomes[3].value)

\* C7 witness: such a run has returned successfully with papers in the feed.
C7_Witness ==
    /\ RaisedTwiceThenList
    /\ ppc = "done"
    /\ presult.returned
    /\ presult.success
    /\ presult.papers_count > 0

\* C8: when the fetch raises on all three attempts, the third exception is
\* re-raised out of the loop with no further wait (two waits in all), and the
\* run ends as a failure: the result has success = False, no feed document
\* was written and no history entry was created.
C8_ExhaustedRetriesFailTheRun ==
    RaisedThrice =>
        /\ Len(outcomes) = 3
        /\ sleeps = <<60, 60>>
        /\ ppc \in {"handler", "done"}
        /\ exc = "fetch"
        /\ feedFiles = 0
        /\ historyFiles = 0
        /\ ppc = "done" => /\ presult.returned
                           /\ ~presult.success
                           /\ presult.error = "fetch"

\* C8 witness: the run has ended after three raising attempts.
C8_Witness ==
    /\ RaisedThrice
    /\ ppc = "done"
    /\ presult.returned
    /\ ~presult.success

\* the run has ended: it returned a result, or an exception left it
RunEnded == ppc = "done"
RunSucceeded == RunEnded /\ presult.returned /\ presult.success

\* C16: save_history_record never raises: it returns None when history is
\* disabled or when building or writing the entry fails, and the new
\* identifier otherwise; a history failure leaves the run a success, with
\* history_id = None.
C16_HistoryFailureNeverFailsTheRun ==
    /\ exc # "history"
    /\ historyWrite # "none" =>
          /\ RunSucceeded
          /\ feedFiles = 1
          /\ presult.history_id = NoneVal <=> historyWrite \in {"disabled", "failed"}
          /\ presult.history_id # NoneVal => historyFiles = 1
          /\ presult.history_id = NoneVal => historyFiles = 0

\* C16 witness: a run with history enabled has written its feed document, the
\* write of the history entry failed, and the run returned success with
\* history_id = None.
C16_Witness ==
    /\ RunSucceeded
    /\ config.history_enabled
    /\ historyWrite = "failed"
    /\ presult.history_id = NoneVal
    /\ presult.papers_count > 0

\* C17: with history enabled and history writes succeeding, a run that ends
\* successfully has created exactly one history entry and a run that fails
\* has created none, whether or not a record passed the filter.
C17_OneHistoryEntryPerSuccessfulRun ==
    (RunEnded /\ config.bound /\ config.history_enabled /\ historyWrite # "failed") =>
        IF presult.returned /\ presult.success
        THEN historyFiles = 1
        ELSE historyFiles = 0

\* C18: no two runs write their feed document under the same file name, two
\* runs with the same keywords that reach the feed-writing step within the
\* same second included. (Stated on the seconds of the clock, the later time
\* left aside.)
C18_FeedFileNamesDiffer ==
    \A i \in 1..Len(feedNames) : \A j \in 1..Len(feedNames) :
        (i # j /\ feedNames[i].second < MaxClock) => feedNames[i] # feedNames[j]

\* C27: run_pipeline never raises: whatever fails (loading the
\* configuration, the fetch, the filter, writing the feed), the run ends by
\* returning a result, with success = False and an error after a failure and
\* with success = True and a record count otherwise.
C27_RunAlwaysReturnsAResult ==
    RunEnded =>
        /\ presult.returned
        /\ IF exc = "none"
           THEN presult.success /\ "papers_count" \in DOMAIN presult
           ELSE ~presult.success /\ "error" \in DOMAIN presult

-----------------------------------------------------------------------------
(* Claims about the text functions *)

\* the positions of the keyword list whose lowercase form is a substring of
\* the lowercase of title + " " + description
Hits(K) ==
    { k \in 1..Len(K) :
        IsSubstring(Lower(K[k]), Lower(title \o <<" ">> \o description)) }

\* C9: match_keywords returns exactly the elements of the keyword list whose
\* lowercase form is a substring of the lowercase of title + ' ' +
\* description, in the list's order and with its casing; a missing list gives
\* the empty list.
C9_MatchedAreTheHitsInOrder ==
    (job = "match" /\ tpc = "done") =>
        LET K == IF keywords.none THEN <<>> ELSE keywords.list IN
        /\ Len(matched) = Cardinality(Hits(K))
        /\ \A i \in 1..Len(matched) :
             \E k \in Hits(K) : /\ matched[i] = K[k]
                                /\ Cardinality({ j \in Hits(K) : j < k }) = i - 1

\* C9 witness: a call has returned a keyword whose casing differs from the
\* text's and has left another keyword out.
C9_Witness ==
    /\ job = "match"
    /\ tpc = "done"
    /\ ~keywords.none
    /\ Len(matched) >= 1
    /\ Len(matched) < Len(keywords.list)
    /\ \E i \in 1..Len(matched) : Lower(matched[i]) # matched[i]

\* the lines of a description, stripped, the blank ones dropped
LinesOf(d) == StrippedNonEmpty(Split(d, "\n"))

IsAuthorsLine(l) == StartsWith(Lower(l), LabelAuthors)
IsCategoriesLine(l) == StartsWith(Lower(l), LabelCategories)
IsUnlabelledLine(l) == ~IsAuthorsLine(l) /\ ~IsCategoriesLine(l)

\* the lines of a description that carry a label
AuthorsLinesOf(d) == SelectSeq(LinesOf(d), IsAuthorsLine)
CategoriesLinesOf(d) == SelectSeq(LinesOf(d), IsCategoriesLine)

\* `entries` are the entries of a line carrying the label, none when no line
\* carries it
EntriesOfLabelled(entries, labelled) ==
    IF labelled = <<>> THEN entries = <<>>
    ELSE \E i \in 1..Len(labelled) : entries = LabelledEntries(labelled[i])

\* C10: authors are the comma-split, trimmed names of the line labelled
\* 'Authors:', categories the comma-split, trimmed entries of the line
\* labelled 'Categories:', the abstract is all lines that carry neither label,
\* space-joined in order, and the abstract written to the sink has at most
\* 1900 characters.
C10_DescriptionMapsToFields ==
    (job = "extract" /\ tpc = "done") =>
        /\ EntriesOfLabelled(authors, AuthorsLinesOf(description))
        /\ EntriesOfLabelled(categories, CategoriesLinesOf(description))
        /\ abstract_text = Join(SelectSeq(LinesOf(description), IsUnlabelledLine), <<" ">>)
        /\ Len(abstract_written) <= FieldLimit

-----------------------------------------------------------------------------
(* Claims about schema reconciliation and the payload *)

\* the properties the ensure_* function named by `r` asks for
RequiredBy(r) == IF r = "xml" THEN XmlProperties(rss.fields) ELSE RequiredProperties

\* the step in which the second of two entry points that run the same ensure_*
\* function runs it, the remote schema holding every property it asks for with
\* the type it asks for
ReconcilesSatisfiedSchemaAgain ==
    /\ spc = "ensure"
    /\ spc' # "ensure"
    /\ prevReconciler = reconciler'
    /\ DOMAIN Need(RequiredBy(reconciler'), schema) = {}

\* C13: the second of two schema reconciliations in succession (the schema
\* fetched, then the same ensure_* function), the remote schema changed by
\* nothing in between and holding every required property with the required
\* type, sends no PATCH request and leaves the schema as it is.
C13_SecondReconciliationSendsNoPatch ==
    [][ReconcilesSatisfiedSchemaAgain => (patchCalls' = 0 /\ schema' = schema)]_vars

\* the step in which an entry point whose fetch of the schema answered 200
\* runs its ensure_* function
ReconcilesFetchedSchema ==
    /\ spc = "ensure"
    /\ spc' # "ensure"
    /\ ~remoteFaults

\* C23: when a step of the reconciliation fails (the PATCH is rejected, or the
\* schema fetched again after a PATCH that answered 200 answers another
\* status), the publisher goes on with the last map it fetched from the sink,
\* and after a PATCH and a fetch that both answer 200 with the map fetched
\* again.
C23_FailedStepKeepsLastFetchedMap ==
    [][ReconcilesFetchedSchema =>
          IF remoteFaults' THEN properties_map' = properties_map
          ELSE properties_map' = schema']_vars

\* C26: when setup_notion_database has completed with every remote call
\* answering 200, the remote schema holds the whole fixed set (URL, Authors,
\* Date, Keywords, Abstract, ArXiv ID) with the required types, whether or not
\* there is a feed document to take further fields from.
C26_SetupReconcilesTheFixedSet ==
    (spc = "done" /\ entry = "setup" /\ ~remoteFaults) =>
        /\ DOMAIN Need(RequiredProperties, schema) = {}
        /\ DOMAIN Need(RequiredProperties, properties_map) = {}

\* C14: every key of a payload sent with create_page or update_page, the
\* title key included, names a property the reconciled properties_map holds
\* with the type the payload uses for it.
C14_PayloadKeysAreInTheMap ==
    (spc = "done" /\ entry \in {"publish", "backfill"}) =>
        \A k \in DOMAIN payload : HasProperty(properties_map, k, payload[k])

-----------------------------------------------------------------------------
(* Claims about concurrent calls and about main() *)

\* both calls have returned
BothReturned == \A c \in Callers : call[c].pc = "done"

\* the identities, None and "" apart, of the records a create_page of either
\* call returned 200 for
Delivered ==
    { Identity(raceFeed[k]) : k \in UNION { call[c].okCreates : c \in Callers } }
        \cap RealIdentities

\* an identity delivered by one of the calls is not in the ledger file
LostUpdate == \E i \in Delivered : i \notin ledger.guids

\* C24: two publish calls running at once over the same ledger file can lose
\* a delivered identity: an interleaving of their load, create and persist
\* steps leaves an identity whose create_page returned 200 out of the file on
\* disk (C24_LostUpdateReached), and with every read and write of the file
\* succeeding that happens only when one call saved a copy it had loaded
\* before the other call saved.
C24_UpdateLostOnlyByOverlap ==
    (BothReturned /\ ~fileFault /\ LostUpdate) => staleSave # {}

C24_LostUpdateReached == BothReturned /\ ~fileFault /\ LostUpdate

\* main() has ended after a first fetch_latest_papers call that raised
MainFirstFetchRaised ==
    /\ mfetches # <<>>
    /\ mfetches[1].kind = "raise"
    /\ mpc = "exited"

\* C25: in main() as in run_pipeline, a fetch that raises on its first attempt
\* is followed by a further fetch attempt, not by the failure of the run.
C25_MainRetriesARaisingFetch ==
    MainFirstFetchRaised => Len(mfetches) > 1

====
